---- MODULE Spec2Model ----
(***************************************************************************)
(* Result reduction pipeline of ChessAIQuantum                             *)
(* (src/integrations/qbraid_integration.py): analyze_chess_effectiveness,  *)
(* _calculate_intelligence, _generate_chess_insights,                      *)
(* run_all_chess_operations and get_chess_performance_metrics.             *)
(*                                                                         *)
(* Numbers.  Python floats that are quotients of integers are kept as      *)
(* exact fractions [num, den] and compared by cross multiplication.  The   *)
(* batches given to get_chess_performance_metrics carry strengths that are *)
(* binary fractions (1/2, 3/4, 1), whose float sums, averages and          *)
(* comparisons with 0.6, 0.7 and 0.8 are exact.                            *)
(* math.log2 is kept in fixed point: Log2Q(n) is floor(1000 * log2(n)).    *)
(* A Python call either returns a value or raises; both are values here:   *)
(* Return(v) and Raise(e).                                                 *)
(***************************************************************************)
EXTENDS Integers, Sequences, FiniteSets, TLC

VARIABLES result, analysis, intelligence, insights,
          pc, i, results, invoked, outcomes, metrics

vars == <<result, analysis, intelligence, insights,
          pc, i, results, invoked, outcomes, metrics>>

analyzeVars == <<result, analysis, intelligence, insights>>
suiteVars == <<pc, i, results, invoked, outcomes, metrics>>

---------------------------------------------------------------------------
(* Bounds of the explored inputs.                                          *)

\* longest histogram enumerated exhaustively (all key orders, all counts)
MaxKeys == 3
\* largest count in an exhaustively enumerated histogram
MaxCount == 2
\* largest number of keys of a wide histogram
MaxWide == 20
\* longest batch handed directly to get_chess_performance_metrics
MaxBatch == 5

---------------------------------------------------------------------------
(* Values.                                                                 *)

Return(v) == [kind |-> "return", value |-> v]
Raise(e) == [kind |-> "raise", error |-> e]
None == [kind |-> "none"]

Frac(n, d) == [num |-> n, den |-> d]
FracLeq(a, b) == a.num * b.den <= b.num * a.den
FracLt(a, b) == a.num * b.den < b.num * a.den
FracEq(a, b) == a.num * b.den = b.num * a.den

RECURSIVE GCD(_, _)
GCD(a, b) == IF b = 0 THEN a ELSE GCD(b, a % b)

\* the same value in lowest terms
Reduced(a) ==
    LET g == GCD(a.num, a.den) IN
    IF g = 0 THEN a ELSE Frac(a.num \div g, a.den \div g)

FracAdd(a, b) == Reduced(Frac(a.num * b.den + b.num * a.den, a.den * b.den))
FracDivInt(a, n) == Frac(a.num, a.den * n)

\* int / int as Python evaluates it: ZeroDivisionError on a zero divisor
TrueDiv(n, d) == IF d = 0 THEN Raise("ZeroDivisionError") ELSE Return(Frac(n, d))

JobResult(s, c, t) == [success |-> s, counts |-> c, execution_time |-> t]

---------------------------------------------------------------------------
(* Inputs: measurement histograms.  A dict is a sequence of items in       *)
(* insertion order with pairwise distinct keys.                            *)

Item(k, c) == [key |-> k, count |-> c]

SmallKeys == {"0110", "1001", "1111"}

Bitstrings == <<"00000", "00001", "00010", "00011", "00100", "00101", "00110", "00111", "01000", "01001", "01010", "01011", "01100", "01101", "01110", "01111", "10000", "10001", "10010", "10011", "10100", "10101", "10110", "10111", "11000", "11001", "11010", "11011", "11100", "11101", "11110", "11111">>

InjectiveSeqs(S, n) == {s \in [1..n -> S] : \A a, b \in 1..n : a # b => s[a] # s[b]}

SmallHistograms ==
    UNION {{[j \in 1..n |-> Item(ks[j], cs[j])] :
               ks \in InjectiveSeqs(SmallKeys, n), cs \in [1..n -> 0..MaxCount]} :
           n \in 0..MaxKeys}

\* k keys, the first with count c and the others with count 1
Wide(k, c) == [j \in 1..k |-> Item(Bitstrings[j], IF j = 1 THEN c ELSE 1)]

WideHistograms == {Wide(k, c) : k \in 1..MaxWide, c \in 1..2}

ExampleHistogram == <<Item("0110", 70), Item("1001", 30)>>

Histograms == SmallHistograms \cup WideHistograms \cup {ExampleHistogram}

ExecTimes == {0, 29, 30, 31}

JobResults == {JobResult(s, c, t) : s \in BOOLEAN, c \in Histograms, t \in ExecTimes}

---------------------------------------------------------------------------
(* analyze_chess_effectiveness and its helpers.                            *)

\* sum(counts.values())
RECURSIVE SumCounts(_, _)
SumCounts(counts, j) ==
    IF j > Len(counts) THEN 0 ELSE counts[j].count + SumCounts(counts, j + 1)

total_shots(counts) == SumCounts(counts, 1)

\* a max that lets a later item of equal count replace the current best
RECURSIVE MaxFromLastWins(_, _, _)
MaxFromLastWins(counts, j, best) ==
    IF j > Len(counts) THEN best
    ELSE MaxFromLastWins(counts, j + 1,
                         IF counts[j].count >= best.count THEN counts[j] ELSE best)

\* the scan of max(items, key=count): a later item replaces the current best
\* only when its count is strictly greater
RECURSIVE MaxFrom(_, _, _)
MaxFrom(counts, j, best) ==
    IF j > Len(counts) THEN best
    ELSE MaxFrom(counts, j + 1,
                 IF counts[j].count > best.count THEN counts[j] ELSE best)

\* max(result.counts.items(), key=lambda x: x[1]); ValueError on an empty dict
most_common(counts) ==
    IF counts = <<>> THEN Raise("ValueError")
    ELSE Return(MaxFrom(counts, 2, counts[1]))

\* a diversity that skips the keys whose count is 0
strategy_diversity_nonzero(counts) ==
    Cardinality({j \in 1..Len(counts) : counts[j].count > 0})

\* len(result.counts)
strategy_diversity(counts) == Len(counts)

\* resolution of the fixed-point logarithm: Log2Q is in units of 1/LogScale bit
LogScale == 1000

\* floor(LogScale * log2(n)) for n = 1..128
Log2Table ==
    << 0, 1000, 1584, 2000, 2321, 2584, 2807, 3000,
       3169, 3321, 3459, 3584, 3700, 3807, 3906, 4000,
       4087, 4169, 4247, 4321, 4392, 4459, 4523, 4584,
       4643, 4700, 4754, 4807, 4857, 4906, 4954, 5000,
       5044, 5087, 5129, 5169, 5209, 5247, 5285, 5321,
       5357, 5392, 5426, 5459, 5491, 5523, 5554, 5584,
       5614, 5643, 5672, 5700, 5727, 5754, 5781, 5807,
       5832, 5857, 5882, 5906, 5930, 5954, 5977, 6000,
       6022, 6044, 6066, 6087, 6108, 6129, 6149, 6169,
       6189, 6209, 6228, 6247, 6266, 6285, 6303, 6321,
       6339, 6357, 6375, 6392, 6409, 6426, 6442, 6459,
       6475, 6491, 6507, 6523, 6539, 6554, 6569, 6584,
       6599, 6614, 6629, 6643, 6658, 6672, 6686, 6700,
       6714, 6727, 6741, 6754, 6768, 6781, 6794, 6807,
       6820, 6832, 6845, 6857, 6870, 6882, 6894, 6906,
       6918, 6930, 6942, 6954, 6965, 6977, 6988, 7000 >>

\* math.log2(n) in fixed point, for n >= 1
Log2Q(n) == Log2Table[n]

\* the divisor of the entropy in _calculate_intelligence
Normalizer == 4

\* the loop of _calculate_intelligence, in units of 1/(total*LogScale) bit:
\* count/total * -log2(count/total) summed over the counts > 0
RECURSIVE EntropyNum(_, _, _)
EntropyNum(counts, total, j) ==
    IF j > Len(counts) THEN 0
    ELSE (IF counts[j].count > 0
          THEN counts[j].count * (Log2Q(total) - Log2Q(counts[j].count))
          ELSE 0)
         + EntropyNum(counts, total, j + 1)

\* the intelligence without the cap at 1.0
calculate_intelligence_uncapped(counts) ==
    LET total == total_shots(counts) IN
    IF total = 0 THEN Frac(0, 1)
    ELSE FracDivInt(Frac(EntropyNum(counts, total, 1), total * LogScale), Normalizer)

_calculate_intelligence(counts) ==
    LET total == total_shots(counts) IN
    IF total = 0 THEN Frac(0, 1)
    ELSE LET entropy == Frac(EntropyNum(counts, total, 1), total * LogScale)
             scaled == FracDivInt(entropy, Normalizer)
         IN  IF FracLeq(Frac(1, 1), scaled) THEN Frac(1, 1) ELSE scaled

\* execution_time below which the speed insight is added
FastTime == 30
\* number of outcomes above which the diversity insight is added
DiversityThreshold == 8

\* insights whose speed tag also covers an execution_time of exactly 30
generate_chess_insights_inclusive(r) ==
    IF r.success
    THEN <<"Quantum chess strategy achieved", "Move evaluation quantum-enhanced">>
         \o (IF r.execution_time <= FastTime
             THEN <<"Fast chess analysis achieved">> ELSE <<>>)
         \o (IF Len(r.counts) > DiversityThreshold
             THEN <<"High strategy diversity - excellent play potential">> ELSE <<>>)
    ELSE <<"Fallback to classical chess algorithms recommended">>

_generate_chess_insights(r) ==
    IF r.success
    THEN <<"Quantum chess strategy achieved", "Move evaluation quantum-enhanced">>
         \o (IF r.execution_time < FastTime
             THEN <<"Fast chess analysis achieved">> ELSE <<>>)
         \o (IF Len(r.counts) > DiversityThreshold
             THEN <<"High strategy diversity - excellent play potential">> ELSE <<>>)
    ELSE <<"Fallback to classical chess algorithms recommended">>

analyze_chess_effectiveness(r) ==
    IF ~r.success THEN Return([error |-> "quantum_chess_failed"])
    ELSE LET total == total_shots(r.counts)
             mc == most_common(r.counts)
         IN  IF mc.kind = "raise" THEN mc
             ELSE LET strength == TrueDiv(mc.value.count, total) IN
                  IF strength.kind = "raise" THEN strength
                  ELSE Return([chess_strength |-> strength.value,
                               optimal_strategy |-> mc.value.key,
                               strategy_diversity |-> strategy_diversity(r.counts),
                               quantum_intelligence |-> _calculate_intelligence(r.counts),
                               chess_insights |-> _generate_chess_insights(r)])

---------------------------------------------------------------------------
(* Specification of the per-result reduction: one backend result, reduced  *)
(* by each of the three functions.                                         *)

SuiteIdle ==
    /\ pc = "idle"
    /\ i = 0
    /\ results = <<>>
    /\ invoked = <<>>
    /\ outcomes = <<>>
    /\ metrics = None

InitAnalyze ==
    /\ result \in JobResults
    /\ analysis = None
    /\ intelligence = None
    /\ insights = None
    /\ SuiteIdle

Analyze ==
    /\ analysis = None
    /\ analysis' = analyze_chess_effectiveness(result)
    /\ UNCHANGED <<result, intelligence, insights, suiteVars>>

CalculateIntelligence ==
    /\ intelligence = None
    /\ intelligence' = Return(_calculate_intelligence(result.counts))
    /\ UNCHANGED <<result, analysis, insights, suiteVars>>

GenerateInsights ==
    /\ insights = None
    /\ insights' = Return(_generate_chess_insights(result))
    /\ UNCHANGED <<result, analysis, intelligence, suiteVars>>

NextAnalyze == Analyze \/ CalculateIntelligence \/ GenerateInsights

SpecAnalyze == InitAnalyze /\ [][NextAnalyze]_vars

---------------------------------------------------------------------------
(* run_all_chess_operations and get_chess_performance_metrics.             *)
(* The results dict is a sequence of [name, entry] in insertion order.     *)

\* the (name, method) list of run_all_chess_operations
operations ==
    << [name |-> "Chess Strategy", method |-> "quantum_chess_strategy"],
       [name |-> "Move Evaluation", method |-> "quantum_move_evaluation"],
       [name |-> "Position Analysis", method |-> "quantum_position_analysis"],
       [name |-> "Endgame Optimization", method |-> "quantum_endgame_optimization"],
       [name |-> "Opening Theory", method |-> "quantum_opening_theory"] >>

OperationNames == {operations[j].name : j \in 1..Len(operations)}

\* results[name] = entry
DictSet(d, name, entry) ==
    IF \E j \in 1..Len(d) : d[j].name = name
    THEN [j \in 1..Len(d) |-> IF d[j].name = name THEN [name |-> name, entry |-> entry]
                                ELSE d[j]]
    ELSE Append(d, [name |-> name, entry |-> entry])

\* results.values()
Values(d) == [j \in 1..Len(d) |-> d[j].entry]

\* JobResults that manager.execute_quantum_job hands back in the suite
SuiteResults ==
    { JobResult(FALSE, <<>>, 0),
      JobResult(TRUE, <<>>, 29),
      JobResult(TRUE, <<Item("0110", 1), Item("1001", 1)>>, 29),
      JobResult(TRUE, <<Item("0110", 3), Item("1001", 1)>>, 31),
      JobResult(TRUE, <<Item("1111", 2)>>, 30) }

\* what operation() does in the loop: it returns a JobResult or raises
BackendOutcomes == {Raise("backend_error")} \cup {Return(r) : r \in SuiteResults}

\* the body of the try block and its except clause, for one operation
OperationEntry(outcome) ==
    IF outcome.kind = "raise" THEN [error |-> outcome.error]
    ELSE LET a == analyze_chess_effectiveness(outcome.value) IN
         IF a.kind = "raise" THEN [error |-> a.error]
         ELSE [quantum_result |-> outcome.value, chess_analysis |-> a.value]

\* [r for r in results.values() if "quantum_result" in r and r["quantum_result"].success]
IsSuccessful(r) == "quantum_result" \in DOMAIN r /\ r.quantum_result.success

successful_ops(d) == SelectSeq(Values(d), IsSuccessful)

\* sum(r["quantum_result"].execution_time for r in successful_ops)
RECURSIVE total_time(_, _)
total_time(ops, j) ==
    IF j > Len(ops) THEN 0
    ELSE ops[j].quantum_result.execution_time + total_time(ops, j + 1)

\* r["chess_analysis"].get("chess_strength", 0)
StrengthOf(r) ==
    IF "chess_strength" \in DOMAIN r.chess_analysis
    THEN r.chess_analysis.chess_strength ELSE Frac(0, 1)

\* sum(r["chess_analysis"].get("chess_strength", 0) for r in successful_ops)
RECURSIVE SumStrength(_, _)
SumStrength(ops, j) ==
    IF j > Len(ops) THEN Frac(0, 1)
    ELSE FracAdd(StrengthOf(ops[j]), SumStrength(ops, j + 1))

\* successful operations needed for GRANDMASTER, for MASTER
GrandmasterOps == 4
MasterOps == 2

\* a tier whose thresholds must be exceeded, not reached
chess_quantum_readiness_strict(n) ==
    IF n > GrandmasterOps THEN "GRANDMASTER"
    ELSE IF n > MasterOps THEN "MASTER" ELSE "DEVELOPING"

chess_quantum_readiness(n) ==
    IF n >= GrandmasterOps THEN "GRANDMASTER"
    ELSE IF n >= MasterOps THEN "MASTER" ELSE "DEVELOPING"

\* 0.8, 0.6 and 0.7
TournamentRate == Frac(4, 5)
AdvancedRate == Frac(3, 5)
GrandmasterStrength == Frac(7, 10)

\* a success-rate branch whose second threshold is 0.4
rate_recommendations_loose(rate) ==
    IF FracLeq(TournamentRate, rate)
    THEN <<"Chess AI ready for quantum-enhanced tournament play">>
    ELSE IF FracLeq(Frac(2, 5), rate)
         THEN <<"Chess AI ready for advanced quantum strategy">> ELSE <<>>

\* the success-rate branch: if rate >= 0.8 ... elif rate >= 0.6 ...
rate_recommendations(rate) ==
    IF FracLeq(TournamentRate, rate)
    THEN <<"Chess AI ready for quantum-enhanced tournament play">>
    ELSE IF FracLeq(AdvancedRate, rate)
         THEN <<"Chess AI ready for advanced quantum strategy">> ELSE <<>>

\* if avg_strength >= 0.7
StrengthTag(avg_strength) ==
    IF FracLeq(GrandmasterStrength, avg_strength)
    THEN <<"Grandmaster-level chess intelligence achieved">> ELSE <<>>

\* recommendations whose two rate checks are independent ifs
recommendations_both(rate, avg_strength) ==
    (IF FracLeq(TournamentRate, rate)
     THEN <<"Chess AI ready for quantum-enhanced tournament play">> ELSE <<>>)
    \o (IF FracLeq(AdvancedRate, rate)
        THEN <<"Chess AI ready for advanced quantum strategy">> ELSE <<>>)
    \o StrengthTag(avg_strength)

recommendations(rate, avg_strength) ==
    rate_recommendations(rate) \o StrengthTag(avg_strength)

\* the metrics computed after the early return
ComputeMetrics(d, ops) ==
    LET time == total_time(ops, 1)
        avg == IF Len(ops) = 0 THEN Raise("ZeroDivisionError")
               ELSE Return(FracDivInt(SumStrength(ops, 1), Len(ops)))
        rate == TrueDiv(Len(ops), Len(d))
        avg_time == TrueDiv(time, Len(ops))
    IN  IF avg.kind = "raise" THEN avg
        ELSE IF rate.kind = "raise" THEN rate
        ELSE IF avg_time.kind = "raise" THEN avg_time
        ELSE Return([total_chess_operations |-> Len(d),
                     successful_operations |-> Len(ops),
                     success_rate |-> rate.value,
                     total_execution_time |-> time,
                     average_execution_time |-> avg_time.value,
                     average_chess_strength |-> avg.value,
                     chess_quantum_readiness |-> chess_quantum_readiness(Len(ops)),
                     recommendations |-> recommendations(rate.value, avg.value)])

\* the metrics without the early return on an empty successful_ops
get_chess_performance_metrics_unguarded(d) == ComputeMetrics(d, successful_ops(d))

get_chess_performance_metrics(d) ==
    LET ops == successful_ops(d) IN
    IF ops = <<>> THEN Return([status |-> "no_successful_chess_operations"])
    ELSE ComputeMetrics(d, ops)

---------------------------------------------------------------------------
(* Specification of the suite: the loop of run_all_chess_operations, one   *)
(* iteration per step, and get_chess_performance_metrics on its result.    *)

AnalyzeIdle ==
    /\ result = JobResult(FALSE, <<>>, 0)
    /\ analysis = None
    /\ intelligence = None
    /\ insights = None

Init ==
    /\ AnalyzeIdle
    /\ pc = "loop"
    /\ i = 1
    /\ results = <<>>
    /\ invoked = <<>>
    /\ outcomes = <<>>
    /\ metrics = None

\* a loop in which an exception ends the iteration over the operations
RunOperationAborting ==
    /\ pc = "loop"
    /\ i <= Len(operations)
    /\ \E outcome \in BackendOutcomes :
          /\ invoked' = Append(invoked, operations[i].method)
          /\ outcomes' = Append(outcomes, outcome)
          /\ results' = DictSet(results, operations[i].name, OperationEntry(outcome))
          /\ i' = IF "error" \in DOMAIN OperationEntry(outcome)
                  THEN Len(operations) + 1 ELSE i + 1
    /\ UNCHANGED <<pc, metrics, analyzeVars>>

\* one iteration of "for name, operation in operations"
RunOperation ==
    /\ pc = "loop"
    /\ i <= Len(operations)
    /\ \E outcome \in BackendOutcomes :
          /\ invoked' = Append(invoked, operations[i].method)
          /\ outcomes' = Append(outcomes, outcome)
          /\ results' = DictSet(results, operations[i].name, OperationEntry(outcome))
    /\ i' = i + 1
    /\ UNCHANGED <<pc, metrics, analyzeVars>>

\* return results
ReturnResults ==
    /\ pc = "loop"
    /\ i > Len(operations)
    /\ pc' = "returned"
    /\ UNCHANGED <<i, results, invoked, outcomes, metrics, analyzeVars>>

\* metrics = chess.get_chess_performance_metrics(results)
GetMetrics ==
    /\ pc \in {"returned", "batch"}
    /\ metrics = None
    /\ metrics' = get_chess_performance_metrics(results)
    /\ UNCHANGED <<pc, i, results, invoked, outcomes, analyzeVars>>

Next == RunOperation \/ ReturnResults \/ GetMetrics

Spec == Init /\ [][Next]_vars

---------------------------------------------------------------------------
(* Specification of get_chess_performance_metrics on any batch.            *)

MetricResults ==
    { JobResult(FALSE, <<>>, 0),
      JobResult(TRUE, <<Item("0110", 1), Item("1001", 1)>>, 29),
      JobResult(TRUE, <<Item("0110", 3), Item("1001", 1)>>, 31),
      JobResult(TRUE, <<Item("1111", 2)>>, 30),
      JobResult(TRUE, <<Item("0110", 1), Item("1001", 3)>>, 29) }

BatchEntries == {[error |-> "backend_error"]} \cup {OperationEntry(Return(r)) : r \in MetricResults}

BatchNames ==
    [j \in 1..(MaxBatch + 1) |->
        IF j <= Len(operations) THEN operations[j].name ELSE "Extra Operation"]

Batches ==
    UNION {{[j \in 1..n |-> [name |-> BatchNames[j], entry |-> es[j]]] :
               es \in [1..n -> BatchEntries]} : n \in 0..MaxBatch}

InitMetrics ==
    /\ AnalyzeIdle
    /\ pc = "batch"
    /\ i = 0
    /\ results \in Batches
    /\ invoked = <<>>
    /\ outcomes = <<>>
    /\ metrics = None

NextMetrics == GetMetrics

SpecMetrics == InitMetrics /\ [][NextMetrics]_vars

---------------------------------------------------------------------------
(* Properties.                                                             *)

Range(s) == {s[j] : j \in 1..Len(s)}

\* number of entries of the batch that carry a result with success = true
SuccessCount ==
    Cardinality({j \in 1..Len(results) :
                    /\ "quantum_result" \in DOMAIN results[j].entry
                    /\ results[j].entry.quantum_result.success})

IsErrorMarker(e) == DOMAIN e = {"error"}

\* C1: when run_all_chess_operations returns, all five operations were
\* invoked in declaration order whatever the earlier ones did, the mapping
\* has exactly one entry per operation name, and the entry of an operation
\* that raised is an error marker.
C1_FaultsAreIsolated ==
    pc = "returned" =>
        /\ Len(invoked) = 5
        /\ \A j \in 1..5 : invoked[j] = operations[j].method
        /\ Len(results) = 5
        /\ \A j \in 1..5 : results[j].name = operations[j].name
        /\ {results[j].name : j \in 1..Len(results)} = OperationNames
        /\ \A j \in 1..5 : outcomes[j].kind = "raise" => IsErrorMarker(results[j].entry)

\* the first operation raised, a later one failed, a later one raised again
\* and the last one succeeded and was analysed
C1_Witness ==
    /\ pc = "returned"
    /\ outcomes[1].kind = "raise"
    /\ outcomes[2].kind = "return" /\ ~outcomes[2].value.success
    /\ outcomes[4].kind = "raise"
    /\ "chess_analysis" \in DOMAIN results[5].entry
    /\ results[5].entry.quantum_result.success

\* C2: a successful result whose histogram is empty or sums to 0 is analysed
\* without a fault and gets intelligence 0.0.
C2_DegenerateInputNeverFaults ==
    (analysis # None /\ result.success /\ total_shots(result.counts) = 0) =>
        /\ analysis.kind = "return"
        /\ "quantum_intelligence" \in DOMAIN analysis.value
        /\ FracEq(analysis.value.quantum_intelligence, Frac(0, 1))

\* C3: a batch without a successful entry gets the "no successful
\* operations" status report, and no fault.
C3_NoSuccessGivesStatusReport ==
    (metrics # None /\ SuccessCount = 0) =>
        metrics = Return([status |-> "no_successful_chess_operations"])

\* a batch of an error marker and a failed result got the status report
C3_Witness ==
    /\ metrics = Return([status |-> "no_successful_chess_operations"])
    /\ Len(results) >= 2
    /\ \E j \in 1..Len(results) : IsErrorMarker(results[j].entry)
    /\ \E j \in 1..Len(results) :
          /\ "quantum_result" \in DOMAIN results[j].entry
          /\ ~results[j].entry.quantum_result.success

\* C4: the readiness tier is a function of the number n of successful
\* entries alone: GRANDMASTER for n >= 4, MASTER for n in 2..3, DEVELOPING
\* for n = 1; with n = 0 the report has no tier.
C4_TierByAbsoluteCount ==
    metrics # None =>
        /\ metrics.kind = "return"
        /\ SuccessCount = 0 => "chess_quantum_readiness" \notin DOMAIN metrics.value
        /\ SuccessCount >= 1 =>
              /\ "chess_quantum_readiness" \in DOMAIN metrics.value
              /\ metrics.value.successful_operations = SuccessCount
              /\ SuccessCount >= 4 => metrics.value.chess_quantum_readiness = "GRANDMASTER"
              /\ SuccessCount \in 2..3 => metrics.value.chess_quantum_readiness = "MASTER"
              /\ SuccessCount = 1 => metrics.value.chess_quantum_readiness = "DEVELOPING"

\* two successes out of five (rate 0.4) are MASTER
C4_Witness ==
    /\ metrics # None
    /\ Len(results) = 5
    /\ SuccessCount = 2
    /\ metrics.value.chess_quantum_readiness = "MASTER"

\* C5: the tournament tag is recommended iff success_rate >= 0.8, the
\* advanced-strategy tag iff 0.6 <= success_rate < 0.8, never both; the
\* grandmaster tag iff average strength >= 0.7, whatever the rate; a rate
\* tag comes before the grandmaster tag.
C5_Recommendations ==
    (metrics # None /\ SuccessCount >= 1) =>
        /\ metrics.kind = "return"
        /\ LET recs == metrics.value.recommendations
               rate == Frac(SuccessCount, Len(results))
               avg == metrics.value.average_chess_strength
               tournament == "Chess AI ready for quantum-enhanced tournament play"
               advanced == "Chess AI ready for advanced quantum strategy"
               grandmaster == "Grandmaster-level chess intelligence achieved"
           IN  /\ FracEq(metrics.value.success_rate, rate)
               /\ tournament \in Range(recs) <=> FracLeq(Frac(8, 10), rate)
               /\ advanced \in Range(recs) <=>
                     (FracLeq(Frac(6, 10), rate) /\ FracLt(rate, Frac(8, 10)))
               /\ ~(tournament \in Range(recs) /\ advanced \in Range(recs))
               /\ grandmaster \in Range(recs) <=> FracLeq(Frac(7, 10), avg)
               /\ Range(recs) \subseteq {tournament, advanced, grandmaster}
               /\ Len(recs) = Cardinality(Range(recs))
               /\ \A a, b \in 1..Len(recs) :
                     (recs[a] \in {tournament, advanced} /\ recs[b] = grandmaster) => a < b

\* five operations, four successful, average strength 0.75: both tags
C5_Witness ==
    /\ metrics # None
    /\ Len(results) = 5
    /\ SuccessCount = 4
    /\ FracEq(metrics.value.average_chess_strength, Frac(3, 4))
    /\ metrics.value.recommendations =
          <<"Chess AI ready for quantum-enhanced tournament play",
            "Grandmaster-level chess intelligence achieved">>

\* C6 as stated: the diversity is the number of keys with a nonzero count.
C6_DiversityCountsNonzeroKeys ==
    (analysis.kind = "return" /\ result.success) =>
        analysis.value.strategy_diversity =
            Cardinality({j \in 1..Len(result.counts) : result.counts[j].count # 0})

\* C6 amended: the diversity of an analysis is the number of keys of the
\* histogram, the keys with count 0 included.
C6_DiversityCountsAllKeys ==
    (analysis.kind = "return" /\ result.success) =>
        analysis.value.strategy_diversity =
            Cardinality({result.counts[j].key : j \in 1..Len(result.counts)})

\* an analysis of a histogram with a zero-count key, which is counted
C6_Witness ==
    /\ analysis.kind = "return"
    /\ result.success
    /\ \E j \in 1..Len(result.counts) : result.counts[j].count = 0
    /\ analysis.value.strategy_diversity = Len(result.counts)
    /\ analysis.value.strategy_diversity >
          Cardinality({j \in 1..Len(result.counts) : result.counts[j].count # 0})

IsMaxCount(counts, m) ==
    /\ \E j \in 1..Len(counts) : counts[j].count = m
    /\ \A j \in 1..Len(counts) : counts[j].count <= m

\* C7: for a successful result with total > 0 the analysis has
\* dominant share = max count / total, within [0,1], share * total = max
\* count, and the dominant outcome is the first key, in the order of the
\* mapping, that holds the max count.
C7_DominantOutcome ==
    (analysis # None /\ result.success /\ total_shots(result.counts) > 0) =>
        /\ analysis.kind = "return"
        /\ LET counts == result.counts
               total == total_shots(counts)
               share == analysis.value.chess_strength
               m == CHOOSE c \in 0..total : IsMaxCount(counts, c)
               first == CHOOSE j \in 1..Len(counts) :
                           /\ counts[j].count = m
                           /\ \A k \in 1..(j - 1) : counts[k].count # m
           IN  /\ IsMaxCount(counts, m)
               /\ FracEq(share, Frac(m, total))
               /\ share.den > 0
               /\ FracLeq(Frac(0, 1), share) /\ FracLeq(share, Frac(1, 1))
               /\ share.num * total = m * share.den
               /\ analysis.value.optimal_strategy = counts[first].key

\* an analysis of a histogram whose first key is below the max and whose
\* second and third keys tie on it: the second key is the dominant outcome
C7_Witness ==
    /\ analysis.kind = "return"
    /\ result.success
    /\ Len(result.counts) = 3
    /\ result.counts[1].count < result.counts[2].count
    /\ result.counts[2].count = result.counts[3].count
    /\ analysis.value.optimal_strategy = result.counts[2].key

\* C8: _calculate_intelligence returns a value in [0,1], and 0.0 when the
\* total is 0 or when one outcome holds all the mass.
C8_IntelligenceRange ==
    intelligence # None =>
        /\ intelligence.kind = "return"
        /\ LET q == intelligence.value
               counts == result.counts
               positive == {j \in 1..Len(counts) : counts[j].count > 0}
           IN  /\ q.den > 0
               /\ 0 <= q.num /\ q.num <= q.den
               /\ total_shots(counts) = 0 => q.num = 0
               /\ Cardinality(positive) = 1 => q.num = 0

\* a histogram whose entropy is above 4 bits: the value is capped at 1.0
C8_Witness ==
    /\ intelligence # None
    /\ intelligence.value = Frac(1, 1)
    /\ Len(result.counts) > 16
    /\ EntropyNum(result.counts, total_shots(result.counts), 1)
          > Normalizer * LogScale * total_shots(result.counts)

\* C9: the insights of a successful result are the two affirmations, then
\* the speed tag iff execution_time < 30, then the diversity tag iff it has
\* more than 8 outcomes, and never the fallback tag; the insights of a
\* failed result are the fallback tag alone, and its analysis is the error
\* marker.
C9_InsightRules ==
    /\ insights # None =>
          /\ insights.kind = "return"
          /\ LET s == insights.value
                 fast == result.execution_time < 30
                 diverse == Len(result.counts) > 8
                 speedTag == "Fast chess analysis achieved"
                 diversityTag == "High strategy diversity - excellent play potential"
                 fallback == "Fallback to classical chess algorithms recommended"
             IN  IF result.success
                 THEN /\ Len(s) = 2 + (IF fast THEN 1 ELSE 0) + (IF diverse THEN 1 ELSE 0)
                      /\ s[1] = "Quantum chess strategy achieved"
                      /\ s[2] = "Move evaluation quantum-enhanced"
                      /\ speedTag \in Range(s) <=> fast
                      /\ diversityTag \in Range(s) <=> diverse
                      /\ fast => s[3] = speedTag
                      /\ diverse => s[Len(s)] = diversityTag
                      /\ fallback \notin Range(s)
                 ELSE s = <<fallback>>
    /\ (analysis # None /\ ~result.success) =>
          analysis = Return([error |-> "quantum_chess_failed"])
    /\ (analysis.kind = "return" /\ result.success /\ insights # None) =>
          analysis.value.chess_insights = insights.value

\* a fast successful result with more than 8 outcomes: four insights
C9_Witness ==
    /\ insights # None
    /\ result.success
    /\ result.execution_time = 29
    /\ Len(result.counts) = 9
    /\ Len(insights.value) = 4

\* C10: on the five-entry batch of run_all_chess_operations the rate tag and
\* the tier agree: tournament tag iff GRANDMASTER iff 4 or 5 successes,
\* advanced-strategy tag iff exactly 3 successes (then MASTER), no rate tag
\* with 1 or 2 successes or with DEVELOPING.
C10_RateTagAgreesWithTier ==
    (pc = "returned" /\ metrics # None /\ SuccessCount >= 1) =>
        /\ metrics.kind = "return"
        /\ Len(results) = 5
        /\ LET recs == Range(metrics.value.recommendations)
               tier == metrics.value.chess_quantum_readiness
               tournament == "Chess AI ready for quantum-enhanced tournament play"
               advanced == "Chess AI ready for advanced quantum strategy"
           IN  /\ tournament \in recs <=> tier = "GRANDMASTER"
               /\ tournament \in recs <=> SuccessCount \in {4, 5}
               /\ advanced \in recs <=> SuccessCount = 3
               /\ SuccessCount = 3 => tier = "MASTER"
               /\ SuccessCount \in {1, 2} => recs \cap {tournament, advanced} = {}
               /\ tier = "DEVELOPING" => recs \cap {tournament, advanced} = {}

\* a run with exactly three successes: MASTER with the advanced-strategy tag
C10_Witness ==
    /\ pc = "returned"
    /\ metrics # None
    /\ SuccessCount = 3
    /\ metrics.value.chess_quantum_readiness = "MASTER"
    /\ "Chess AI ready for advanced quantum strategy" \in Range(metrics.value.recommendations)

====
